---- MODULE Spec2Model ----
(***************************************************************************)
(* A model of repository/mock_repo.go: the in-memory repository            *)
(* (mockRepoForTest) with its ref table, commit store and notes store,     *)
(* and the queries and commands defined on it.                             *)
(*                                                                         *)
(* Go strings are modelled as sequences of text pieces: "refs/heads/x"     *)
(* is <<"refs/", "heads/", "x">>, the empty string is <<>>, and a line     *)
(* break is the piece "\n".  String concatenation is \o, and               *)
(* strings.Replace and strings.Split are computed piece by piece.          *)
(***************************************************************************)
EXTENDS Integers, Sequences, FiniteSets, TLC

\* head is the Head field of mockRepoForTest (Head names an operator of Sequences).
VARIABLES head, Refs, Commits, Notes, op, args, ret, nAppends

vars == <<head, Refs, Commits, Notes, op, args, ret, nAppends>>

\* ------------------------------------------------------------------ bounds

\* Number of commits of a generated commit graph.
MaxCommits == 3
\* Longest parent list of a generated commit.
MaxParents == 2
\* Number of AppendNote calls explored in one behaviour.
MaxAppends == 2

\* ----------------------------------------------------------------- strings

EmptyString == <<>>
NewLine == "\n"

\* The error value nil.
nil == <<>>

\* Whether sequence p occurs in s at position i.
OccursAt(s, p, i) ==
    /\ i >= 1
    /\ i + Len(p) - 1 <= Len(s)
    /\ \A k \in 1..Len(p) : s[i + k - 1] = p[k]

\* True when s starts with p.
HasPrefix(s, p) == OccursAt(s, p, 1)

\* strings.Replace(s, old, new, 1): the first occurrence of old becomes new.
ReplaceFirst(s, old, new) ==
    LET hits == {i \in 1..Len(s) : OccursAt(s, old, i)}
    IN  IF hits = {} THEN s
        ELSE LET i == CHOOSE h \in hits : \A g \in hits : h <= g
             IN  SubSeq(s, 1, i - 1) \o new \o SubSeq(s, i + Len(old), Len(s))

RECURSIVE SplitFrom(_, _, _)
\* The lines of s from position i on, cur being the line under construction.
SplitFrom(s, i, cur) ==
    IF i > Len(s) THEN <<cur>>
    ELSE IF s[i] = NewLine THEN <<cur>> \o SplitFrom(s, i + 1, <<>>)
    ELSE SplitFrom(s, i + 1, Append(cur, s[i]))

\* strings.Split(s, "\n"): always at least one entry, the empty string
\* yields one empty entry.
SplitLines(s) == SplitFrom(s, 1, <<>>)

\* The elements of a sequence.
Range(s) == {s[i] : i \in 1..Len(s)}

\* Map lookup m[k] of Go: the zero value when the key is absent.
Lookup(m, k, zero) == IF k \in DOMAIN m THEN m[k] ELSE zero

\* --------------------------------------------------------------- test data

TestTargetRef == <<"refs/", "heads/", "master">>
TestReviewRef == <<"refs/", "heads/", "ojarjur/mychange">>
TestRequestsRef == <<"refs/", "notes/", "devtools/reviews">>
TestCommentsRef == <<"refs/", "notes/", "devtools/discuss">>

TestCommitA == <<"A">>
TestCommitB == <<"B">>
TestCommitC == <<"C">>
TestCommitD == <<"D">>
TestCommitE == <<"E">>
TestCommitF == <<"F">>
TestCommitG == <<"G">>
TestCommitH == <<"H">>
TestCommitI == <<"I">>
TestCommitJ == <<"J">>

\* Each JSON document of the test data is one piece: none holds a line break.
TestRequestB == <<"{request B}">>
TestRequestD == <<"{request D}">>
TestRequestG ==
    <<"{request G}", NewLine, NewLine, "{request G updated}", NewLine, NewLine,
      "{request G final}">>
TestDiscussB == <<"{discuss B}">>
TestDiscussD == <<"{discuss D}">>

\* type mockCommit
mockCommit(message, time, parents) ==
    [Message |-> message, Time |-> time, Parents |-> parents]

\* The zero value of mockCommit.
ZeroCommit == mockCommit("", "", <<>>)

\* Fields of the repository NewMockRepoForTest returns.
TestRefs ==
    (TestTargetRef :> TestCommitJ) @@ (TestReviewRef :> TestCommitI)

TestCommits ==
    (TestCommitA :> mockCommit("First commit", "0", <<>>))
    @@ (TestCommitB :> mockCommit("Second commit", "1", <<TestCommitA>>))
    @@ (TestCommitC :> mockCommit("No, I'm the second commit", "1", <<TestCommitA>>))
    @@ (TestCommitD :> mockCommit("Fourth commit", "2", <<TestCommitB, TestCommitC>>))
    @@ (TestCommitE :> mockCommit("Fifth commit", "3", <<TestCommitD>>))
    @@ (TestCommitF :> mockCommit("Sixth commit", "4", <<TestCommitE>>))
    @@ (TestCommitG :> mockCommit("No, I'm the sixth commit", "4", <<TestCommitE>>))
    @@ (TestCommitH :> mockCommit("Seventh commit", "5", <<TestCommitG, TestCommitF>>))
    @@ (TestCommitI :> mockCommit("Eighth commit", "6", <<TestCommitH>>))
    @@ (TestCommitJ :> mockCommit("No, I'm the eighth commit", "6", <<TestCommitF>>))

TestNotes ==
    (TestRequestsRef :>
        ((TestCommitB :> TestRequestB) @@ (TestCommitD :> TestRequestD)
            @@ (TestCommitG :> TestRequestG)))
    @@ (TestCommentsRef :>
        ((TestCommitB :> TestDiscussB) @@ (TestCommitD :> TestDiscussD)))

\* ---------------------------------------------------------- ref resolution

\* fmt.Errorf("The ref %q does not exist", ref)
RefError(ref) == <<"The ref ", ref, " does not exist">>

\* fmt.Errorf("The given hash %q is not a known commit", hash)
HashError(hash) == <<"The given hash ", hash, " is not a known commit">>

resolveLocalRef(ref) ==
    IF ref \in DOMAIN Refs THEN [commit |-> Refs[ref], err |-> nil]
    ELSE IF ref \in DOMAIN Commits THEN [commit |-> ref, err |-> nil]
    ELSE [commit |-> EmptyString, err |-> RefError(ref)]

VerifyCommit(hash) ==
    IF hash \notin DOMAIN Commits THEN HashError(hash) ELSE nil

VerifyGitRef(ref) == resolveLocalRef(ref).err

GetHeadRef == [val |-> head, err |-> nil]

GetCommitHash(ref) ==
    LET err == VerifyGitRef(ref)
    IN  IF err # nil THEN [val |-> EmptyString, err |-> err]
        ELSE [val |-> Lookup(Refs, ref, EmptyString), err |-> nil]

\* An alternative resolution with no second attempt.
ResolveRefCommit_LocalOnly(ref) ==
    LET local == resolveLocalRef(ref)
    IN  [val |-> local.commit, err |-> local.err]

ResolveRefCommit(ref) ==
    LET local == resolveLocalRef(ref)
        remote == resolveLocalRef(
            ReplaceFirst(ref, <<"refs/", "heads/">>, <<"refs/", "remotes/", "origin/">>))
    IN  IF local.err = nil THEN [val |-> local.commit, err |-> local.err]
        ELSE [val |-> remote.commit, err |-> remote.err]

getCommit(ref) ==
    LET local == resolveLocalRef(ref)
    IN  [commit |-> Lookup(Commits, local.commit, ZeroCommit), err |-> local.err]

GetLastParent(ref) ==
    LET c == getCommit(ref)
    IN  IF Len(c.commit.Parents) > 0
        THEN [val |-> c.commit.Parents[Len(c.commit.Parents)], err |-> c.err]
        ELSE [val |-> EmptyString, err |-> c.err]

\* --------------------------------------------------------- ancestry engine

RECURSIVE ancestorsLayer(_, _, _, _)
RECURSIVE ancestorsFrom(_, _)

\* The inner loop of ancestors over queue[i..]: nextQueue and acc collect the
\* parents; a commit that does not resolve ends the whole traversal.
ancestorsLayer(queue, i, nextQueue, acc) ==
    IF i > Len(queue) THEN ancestorsFrom(nextQueue, acc)
    ELSE LET c == getCommit(queue[i])
         IN  IF c.err # nil THEN [list |-> <<>>, err |-> c.err]
             ELSE ancestorsLayer(queue, i + 1, nextQueue \o c.commit.Parents,
                                 acc \o c.commit.Parents)

\* The outer loop of ancestors: it ends when a layer added no parent.
ancestorsFrom(queue, acc) ==
    IF queue = <<>> THEN [list |-> acc, err |-> nil]
    ELSE ancestorsLayer(queue, 1, <<>>, acc)

\* An alternative traversal that stops after the immediate parents.
ancestors_ParentsOnly(commit) ==
    LET c == getCommit(commit)
    IN  IF c.err # nil THEN [list |-> <<>>, err |-> c.err]
        ELSE [list |-> c.commit.Parents, err |-> nil]

\* ancestors returns the breadth-first traversal of a commit's ancestors.
ancestors(commit) == ancestorsFrom(<<commit>>, <<>>)

RECURSIVE IsAncestorRec(_, _)
RECURSIVE IsAncestorParents(_, _, _)

\* The loop of IsAncestor over parents[i..]: the first parent that answers
\* (true, nil) decides; an error of a recursive call is dropped.
IsAncestorParents(ancestor, parents, i) ==
    IF i > Len(parents) THEN [t |-> FALSE, e |-> nil]
    ELSE LET r == IsAncestorRec(ancestor, parents[i])
         IN  IF r.e = nil /\ r.t THEN [t |-> TRUE, e |-> nil]
             ELSE IsAncestorParents(ancestor, parents, i + 1)

IsAncestorRec(ancestor, descendant) ==
    IF ancestor = descendant THEN [t |-> TRUE, e |-> nil]
    ELSE LET c == getCommit(descendant)
         IN  IF c.err # nil THEN [t |-> FALSE, e |-> c.err]
             ELSE IsAncestorParents(ancestor, c.commit.Parents, 1)

\* An alternative test that follows only the first parent of each commit.
IsAncestor_FirstParent(ancestor, descendant) ==
    LET RECURSIVE walk(_)
        walk(d) ==
            IF ancestor = d THEN [t |-> TRUE, e |-> nil]
            ELSE LET c == getCommit(d)
                 IN  IF c.err # nil THEN [t |-> FALSE, e |-> c.err]
                     ELSE IF Len(c.commit.Parents) = 0 THEN [t |-> FALSE, e |-> nil]
                     ELSE LET r == walk(c.commit.Parents[1])
                          IN  IF r.e = nil /\ r.t THEN r ELSE [t |-> FALSE, e |-> nil]
    IN  walk(descendant)

\* An alternative test that gives up at the first parent that fails.
IsAncestor_Propagate(ancestor, descendant) ==
    LET RECURSIVE walk(_)
        RECURSIVE loop(_, _)
        loop(parents, i) ==
            IF i > Len(parents) THEN [t |-> FALSE, e |-> nil]
            ELSE LET r == walk(parents[i])
                 IN  IF r.e # nil THEN [t |-> FALSE, e |-> r.e]
                     ELSE IF r.t THEN r
                     ELSE loop(parents, i + 1)
        walk(d) ==
            IF ancestor = d THEN [t |-> TRUE, e |-> nil]
            ELSE LET c == getCommit(d)
                 IN  IF c.err # nil THEN [t |-> FALSE, e |-> c.err]
                     ELSE loop(c.commit.Parents, 1)
    IN  walk(descendant)

\* IsAncestor determines if the first argument points to a commit that is an
\* ancestor of the second.
IsAncestor(ancestor, descendant) == IsAncestorRec(ancestor, descendant)

RECURSIVE MergeBaseScan(_, _, _)
\* The loop of MergeBase over list[i..].
MergeBaseScan(list, i, b) ==
    IF i > Len(list) THEN [val |-> EmptyString, err |-> nil]
    ELSE LET r == IsAncestor(list[i], b)
         IN  IF r.e = nil /\ r.t THEN [val |-> list[i], err |-> nil]
             ELSE MergeBaseScan(list, i + 1, b)

\* An alternative merge base: the nearest ancestor of a, whatever b is.
MergeBase_FirstAncestor(a, b) ==
    LET anc == ancestors(a)
    IN  IF anc.err # nil THEN [val |-> EmptyString, err |-> anc.err]
        ELSE IF Len(anc.list) = 0 THEN [val |-> EmptyString, err |-> nil]
        ELSE [val |-> anc.list[1], err |-> nil]

MergeBase(a, b) ==
    LET anc == ancestors(a)
    IN  IF anc.err # nil THEN [val |-> EmptyString, err |-> anc.err]
        ELSE MergeBaseScan(anc.list, 1, b)

\* ------------------------------------------------------------- notes store

\* r.Notes[notesRef][revision]: the empty string when either key is absent.
NotesText(notesRef, revision) ==
    Lookup(Lookup(Notes, notesRef, <<>>), revision, EmptyString)

GetNotes(notesRef, revision) == SplitLines(NotesText(notesRef, revision))

\* An alternative append that puts the new note in front.
AppendedText_Prepend(existingNotes, note) == note \o <<NewLine>> \o existingNotes

\* newNotes := existingNotes + "\n" + string(note)
AppendedText(existingNotes, note) == existingNotes \o <<NewLine>> \o note

\* The sequences that list each element of the finite set S once.
Orderings(S) ==
    {s \in [1..Cardinality(S) -> S] : \A i, j \in 1..Cardinality(S) : s[i] = s[j] => i = j}

\* An alternative listing that does not look at the commit store.
NotedRevisionSet_Unfiltered(notesRef) == DOMAIN Lookup(Notes, notesRef, <<>>)

\* The revisions ListNotedRevisions collects.
NotedRevisionSet(notesRef) ==
    {revision \in DOMAIN Lookup(Notes, notesRef, <<>>) : revision \in DOMAIN Commits}

\* The results ListNotedRevisions may return: the iteration order of a Go map
\* is not specified.
ListNotedRevisions(notesRef) == Orderings(NotedRevisionSet(notesRef))

\* ------------------------------------------------------------ repositories

\* The repository NewMockRepoForTest returns.
InitTest ==
    /\ head = TestTargetRef
    /\ Refs = TestRefs
    /\ Commits = TestCommits
    /\ Notes = TestNotes
    /\ op = "idle"
    /\ args = <<>>
    /\ ret = [val |-> <<>>, err |-> nil, panic |-> FALSE]
    /\ nAppends = 0

\* An identifier no repository of the model holds as a commit or a ref.
MissingCommit == <<"Z">>

\* Identifiers of the commits of a generated graph, oldest first.
GraphCommitIds ==
    <<TestCommitA, TestCommitB, TestCommitC, TestCommitD, TestCommitE,
      TestCommitF, TestCommitG, TestCommitH, TestCommitI, TestCommitJ>>

\* The sequences of at most n distinct elements of S.
DistinctSeqs(S, n) ==
    UNION {{s \in [1..k -> S] : \A i, j \in 1..k : s[i] = s[j] => i = j} : k \in 0..n}

\* The parent lists the i-th commit of a generated graph may have: older
\* commits of the graph, in any order, and possibly a commit the store lacks.
ParentLists(i) ==
    DistinctSeqs({GraphCommitIds[j] : j \in 1..(i - 1)} \cup {MissingCommit}, MaxParents)

RECURSIVE ParentChoices(_)
\* One parent list for each of the first n commits.
ParentChoices(n) ==
    IF n = 0 THEN {<<>>}
    ELSE {Append(p, q) : p \in ParentChoices(n - 1), q \in ParentLists(n)}

\* Acyclic commit stores of MaxCommits commits, parents possibly missing.
GraphStores ==
    {[c \in {GraphCommitIds[i] : i \in 1..MaxCommits} |->
        LET i == CHOOSE k \in 1..MaxCommits : GraphCommitIds[k] = c
        IN  mockCommit("", "", p[i])] : p \in ParentChoices(MaxCommits)}

\* A repository over any generated commit store, one branch at its newest
\* commit, no notes.
InitGraph ==
    /\ head = TestTargetRef
    /\ Refs = (TestTargetRef :> GraphCommitIds[MaxCommits])
    /\ Commits \in GraphStores
    /\ Notes = <<>>
    /\ op = "idle"
    /\ args = <<>>
    /\ ret = [val |-> <<>>, err |-> nil, panic |-> FALSE]
    /\ nAppends = 0

RemoteTargetRef == <<"refs/", "remotes/", "origin/", "master">>
OtherBranchRef == <<"refs/", "heads/", "dev">>
RemoteOtherBranchRef == <<"refs/", "remotes/", "origin/", "dev">>
\* A name that holds "refs/heads/" but does not start with it.
NestedBranchRef == <<"backup/", "refs/", "heads/", "master">>

BranchRefNames ==
    {TestTargetRef, RemoteTargetRef, OtherBranchRef, RemoteOtherBranchRef}

\* Ref tables over the branch names: each ref present or not, local or
\* remote-tracking, pointing at a commit of the store.
RefTables ==
    UNION {[S -> {TestCommitI, TestCommitJ}] : S \in SUBSET BranchRefNames}

\* The test commits under any such ref table.
InitRefs ==
    /\ head = TestTargetRef
    /\ Refs \in RefTables
    /\ Commits = TestCommits
    /\ Notes = TestNotes
    /\ op = "idle"
    /\ args = <<>>
    /\ ret = [val |-> <<>>, err |-> nil, panic |-> FALSE]
    /\ nAppends = 0

\* ------------------------------------------------------------------ inputs

\* Arguments of the ancestry queries: every commit, every ref, and an
\* identifier that is neither.
CommitArgs == DOMAIN Commits \cup DOMAIN Refs \cup {MissingCommit}

\* Arguments of the ref queries.
RefArgs ==
    DOMAIN Refs \cup DOMAIN Commits \cup BranchRefNames
        \cup {NestedBranchRef, MissingCommit}

OtherNotesRef == <<"refs/", "notes/", "other">>
NotesRefArgs == DOMAIN Notes \cup {OtherNotesRef}

\* Revisions to annotate: one with notes in the test data, one commit
\* without, and one that is no commit.
RevisionArgs == {TestCommitB, TestCommitA, MissingCommit}

\* Note payloads: a line, two lines, the empty note.
NoteArgs == {<<"a">>, <<"a", NewLine, "b">>, <<>>}

\* ----------------------------------------------------------------- actions

Result(val, err) == [val |-> val, err |-> err, panic |-> FALSE]

\* Calls are made one at a time: op names the call whose result the caller
\* holds, "idle" when it holds none.  The queries leave the repository as it is.
Returns(name, arguments, result) ==
    /\ op = "idle"
    /\ op' = name
    /\ args' = arguments
    /\ ret' = result
    /\ UNCHANGED <<head, Refs, Commits, Notes, nAppends>>

DoVerifyCommit ==
    \E hash \in RefArgs :
        Returns("VerifyCommit", <<hash>>, Result(<<>>, VerifyCommit(hash)))

DoVerifyGitRef ==
    \E ref \in RefArgs :
        Returns("VerifyGitRef", <<ref>>, Result(<<>>, VerifyGitRef(ref)))

DoGetHeadRef ==
    Returns("GetHeadRef", <<>>, Result(GetHeadRef.val, GetHeadRef.err))

DoGetCommitHash ==
    \E ref \in RefArgs :
        LET r == GetCommitHash(ref)
        IN  Returns("GetCommitHash", <<ref>>, Result(r.val, r.err))

DoResolveRefCommit ==
    \E ref \in RefArgs :
        LET r == ResolveRefCommit(ref)
        IN  Returns("ResolveRefCommit", <<ref>>, Result(r.val, r.err))

DoGetLastParent ==
    \E ref \in CommitArgs :
        LET r == GetLastParent(ref)
        IN  Returns("GetLastParent", <<ref>>, Result(r.val, r.err))

\* SwitchToRef has a value receiver: the assignment to r.Head is made on a
\* copy and the repository keeps its head.
DoSwitchToRef ==
    \E ref \in RefArgs : Returns("SwitchToRef", <<ref>>, Result(<<>>, nil))

DoAncestors ==
    \E commit \in CommitArgs :
        LET r == ancestors(commit)
        IN  Returns("ancestors", <<commit>>, Result(r.list, r.err))

DoIsAncestor ==
    \E ancestor \in CommitArgs, descendant \in CommitArgs :
        LET r == IsAncestor(ancestor, descendant)
        IN  Returns("IsAncestor", <<ancestor, descendant>>, Result(r.t, r.e))

DoMergeBase ==
    \E a \in CommitArgs, b \in CommitArgs :
        LET r == MergeBase(a, b)
        IN  Returns("MergeBase", <<a, b>>, Result(r.val, r.err))

DoGetNotes ==
    \E notesRef \in NotesRefArgs, revision \in RevisionArgs :
        Returns("GetNotes", <<notesRef, revision>>,
                Result(GetNotes(notesRef, revision), nil))

DoListNotedRevisions ==
    \E notesRef \in NotesRefArgs :
        \E revisions \in ListNotedRevisions(notesRef) :
            Returns("ListNotedRevisions", <<notesRef>>, Result(revisions, nil))

\* AppendNote writes through the map the receiver's copy shares with the
\* repository.  r.Notes[ref] of a ref without notes is a nil map: reading it
\* gives "", assigning to it panics.
DoAppendNote ==
    \E ref \in NotesRefArgs, revision \in RevisionArgs, note \in NoteArgs :
        /\ op = "idle"
        /\ op' = "AppendNote"
        /\ args' = <<ref, revision, note>>
        /\ IF ref \in DOMAIN Notes
           THEN /\ nAppends < MaxAppends
                /\ Notes' = [Notes EXCEPT ![ref] =
                       (revision :> AppendedText(NotesText(ref, revision), note)) @@ @]
                /\ nAppends' = nAppends + 1
                /\ ret' = Result(<<>>, nil)
           ELSE /\ ret' = [val |-> <<>>, err |-> nil, panic |-> TRUE]
                /\ UNCHANGED <<Notes, nAppends>>
        /\ UNCHANGED <<head, Refs, Commits>>

\* The caller drops the result it holds and is ready for its next call.
DropResult ==
    /\ op # "idle"
    /\ op' = "idle"
    /\ args' = <<>>
    /\ ret' = [val |-> <<>>, err |-> nil, panic |-> FALSE]
    /\ UNCHANGED <<head, Refs, Commits, Notes, nAppends>>

\* ---------------------------------------------------------- specifications

NextRefs ==
    \/ DropResult
    \/ DoVerifyCommit
    \/ DoVerifyGitRef
    \/ DoGetHeadRef
    \/ DoGetCommitHash
    \/ DoResolveRefCommit
    \/ DoSwitchToRef

NextGraph ==
    \/ DropResult
    \/ DoGetLastParent
    \/ DoAncestors
    \/ DoIsAncestor
    \/ DoMergeBase

NextNotes ==
    \/ DropResult
    \/ DoGetNotes
    \/ DoListNotedRevisions
    \/ DoAppendNote

Next == NextRefs \/ NextGraph

\* The test repository under the ref and ancestry queries.
Spec == InitTest /\ [][Next]_vars

\* The test repository under the notes operations.
SpecNotes == InitTest /\ [][NextNotes]_vars

\* Any ref table under the ref queries.
SpecRefs == InitRefs /\ [][NextRefs]_vars

\* Any generated commit graph under the ancestry queries.
SpecGraph == InitGraph /\ [][NextGraph]_vars

\* ------------------------------------------------------------------ claims

\* What resolves without looking at a remote: a ref of the table or a commit
\* of the store.
Resolves(name) == name \in DOMAIN Refs \/ name \in DOMAIN Commits

\* The commit a resolving name stands for.
Target(name) == IF name \in DOMAIN Refs THEN Refs[name] ELSE name

\* The parent identifiers recorded for a name, none when it does not resolve.
ParentSet(name) ==
    IF Resolves(name) /\ Target(name) \in DOMAIN Commits
    THEN Range(Commits[Target(name)].Parents)
    ELSE {}

RECURSIVE ReachClosure(_)
\* The least set that holds S and the recorded parents of its members.
ReachClosure(S) ==
    LET T == S \cup UNION {ParentSet(c) : c \in S}
    IN  IF T = S THEN S ELSE ReachClosure(T)

\* The identifiers a chain of parent edges leads to from name, name included.
Reachable(name) == ReachClosure({name})

\* Every parent any commit of the store names is a commit of the store.
AllParentsExist ==
    \A c \in DOMAIN Commits : Range(Commits[c].Parents) \subseteq DOMAIN Commits

\* C1: for every commit a of the store, MergeBase(a, a) returns a itself with
\* no error.
C1_MergeBaseOfSelf ==
    (op = "MergeBase" /\ args[1] = args[2] /\ args[1] \in DOMAIN Commits)
        => (ret.err = nil /\ ret.val = args[1])

\* C2: in a store whose parent references all exist, IsAncestor(a, b) on
\* commits a and b returns true with no error exactly when a = b or a is in
\* the list ancestors(b) produces, which itself succeeds; in particular
\* IsAncestor(c, c) is true.
C2_IsAncestorAgreesWithAncestors ==
    (/\ op = "IsAncestor"
     /\ AllParentsExist
     /\ args[1] \in DOMAIN Commits
     /\ args[2] \in DOMAIN Commits)
        => (/\ ret.err = nil
            /\ ancestors(args[2]).err = nil
            /\ ret.val = (args[1] = args[2]
                            \/ args[1] \in Range(ancestors(args[2]).list))
            /\ (args[1] = args[2] => ret.val = TRUE))

\* C2's case: a true answer for an ancestor that is no parent of b, in a
\* store without missing parents.
C2_Witness ==
    /\ op = "IsAncestor"
    /\ AllParentsExist
    /\ args[1] \in DOMAIN Commits
    /\ args[2] \in DOMAIN Commits
    /\ args[1] # args[2]
    /\ args[1] \notin Range(Commits[args[2]].Parents)
    /\ ret.val = TRUE

\* C3: whenever MergeBase(a, b) returns a non-empty result r with no error,
\* IsAncestor(r, a) and IsAncestor(r, b) both return true with no error.
C3_MergeBaseIsCommonAncestor ==
    (op = "MergeBase" /\ ret.err = nil /\ ret.val # EmptyString)
        => (/\ IsAncestor(ret.val, args[1]) = [t |-> TRUE, e |-> nil]
            /\ IsAncestor(ret.val, args[2]) = [t |-> TRUE, e |-> nil])

\* C3's case: a merge base found for two commits neither of which descends
\* from the other.
C3_Witness ==
    /\ op = "MergeBase"
    /\ ret.err = nil
    /\ ret.val # EmptyString
    /\ args[1] \in DOMAIN Commits
    /\ args[2] \in DOMAIN Commits
    /\ args[1] \notin Reachable(args[2])
    /\ args[2] \notin Reachable(args[1])

\* C4 as stated: on the test repository IsAncestor("C", "G") returns false.
C4_CIsNoAncestorOfG ==
    (op = "IsAncestor" /\ args = <<TestCommitC, TestCommitG>>)
        => (ret.err = nil /\ ret.val = FALSE)

\* C4 as amended: on the test repository IsAncestor("C", "G") returns true
\* with no error (G descends from E, E from the merge D, and C is the second
\* parent of D).
C4_CIsAncestorOfG ==
    (op = "IsAncestor" /\ args = <<TestCommitC, TestCommitG>>)
        => (ret.err = nil /\ ret.val = TRUE)

\* C4's case: IsAncestor("C", "G") has been asked of the test repository.
C4_Witness ==
    /\ op = "IsAncestor"
    /\ args = <<TestCommitC, TestCommitG>>
    /\ Commits = TestCommits
    /\ Refs = TestRefs

\* The last entry of a non-empty sequence.
Last(s) == s[Len(s)]

\* C5 as stated: after AppendNote(ref, revision, note) returns, the last entry
\* of GetNotes(ref, revision) is the appended note, for every note payload.
C5_LastNoteIsAppended ==
    (op = "AppendNote" /\ ~ret.panic)
        => Last(GetNotes(args[1], args[2])) = args[3]

\* C5 as amended: after AppendNote(ref, revision, note) returns for a note
\* that holds no line break, the last entry of GetNotes(ref, revision) is the
\* appended note, whatever appends preceded it.
C5_LastNoteIsAppendedLine ==
    (op = "AppendNote" /\ ~ret.panic /\ NewLine \notin Range(args[3]))
        => Last(GetNotes(args[1], args[2])) = args[3]

\* C5's case: a one-line note appended after an earlier append to the same
\* revision.
C5_Witness ==
    /\ op = "AppendNote"
    /\ ~ret.panic
    /\ nAppends >= 2
    /\ args[3] = <<"a">>
    /\ Len(GetNotes(args[1], args[2])) >= 3

\* Whether the notes store holds an entry for (ref, revision).
HasEntry(notes, ref, revision) ==
    ref \in DOMAIN notes /\ revision \in DOMAIN notes[ref]

\* Whether text holds note as a contiguous part.
Holds(text, note) == \E i \in 1..(Len(text) + 1) : OccursAt(text, note, i)

\* C6: AppendNote(ref, revision, note) on a pair that has no entry yet, also
\* under a notes-ref with no entry at all, completes without failure and
\* leaves an entry for (ref, revision) that holds the note.
C6_AppendCreatesEntry ==
    [][(op' = "AppendNote" /\ ~HasEntry(Notes, args'[1], args'[2]))
          => (/\ ~ret'.panic
              /\ HasEntry(Notes', args'[1], args'[2])
              /\ Holds(Notes'[args'[1]][args'[2]], args'[3]))]_vars

\* C7: ListNotedRevisions(ref) never fails and returns, each once, exactly the
\* revisions that have an entry under ref and are commits of the store.
C7_NotedRevisionsAreCommits ==
    (op = "ListNotedRevisions")
        => (/\ ~ret.panic
            /\ ret.err = nil
            /\ \A i, j \in 1..Len(ret.val) : ret.val[i] = ret.val[j] => i = j
            /\ \A revision \in Range(ret.val) :
                   HasEntry(Notes, args[1], revision) /\ revision \in DOMAIN Commits
            /\ \A revision \in DOMAIN Commits :
                   HasEntry(Notes, args[1], revision) => revision \in Range(ret.val))

\* C7's case: a listing made while the ref holds notes for a revision that is
\* no commit, next to revisions that are.
C7_Witness ==
    /\ op = "ListNotedRevisions"
    /\ HasEntry(Notes, args[1], MissingCommit)
    /\ Len(ret.val) >= 3

HeadsPrefix == <<"refs/", "heads/">>
RemotesPrefix == <<"refs/", "remotes/", "origin/">>

\* The remote-tracking name of a branch ref refs/heads/<name>.
RemoteOf(ref) == RemotesPrefix \o SubSeq(ref, Len(HeadsPrefix) + 1, Len(ref))

\* C8: ResolveRefCommit(ref) returns the local resolution of ref when there is
\* one; otherwise, for a ref refs/heads/<name>, the resolution of
\* refs/remotes/origin/<name> when there is one, and else the error that
\* names refs/remotes/origin/<name>.
C8_ResolveFallsBackToRemote ==
    (op = "ResolveRefCommit")
        => LET ref == args[1]
           IN  /\ Resolves(ref) => ret = Result(Target(ref), nil)
               /\ (~Resolves(ref) /\ HasPrefix(ref, HeadsPrefix))
                     => IF Resolves(RemoteOf(ref))
                        THEN ret = Result(Target(RemoteOf(ref)), nil)
                        ELSE ret = Result(EmptyString, RefError(RemoteOf(ref)))

\* C8's case: a branch that exists only as a remote-tracking ref is resolved.
C8_Witness ==
    /\ op = "ResolveRefCommit"
    /\ args[1] = TestTargetRef
    /\ TestTargetRef \notin DOMAIN Refs
    /\ RemoteTargetRef \in DOMAIN Refs
    /\ ret.val = Refs[RemoteTargetRef]
    /\ ret.err = nil

\* C9: GetCommitHash(ref) either fails or returns a commit of the store: the
\* target of a known ref, and the argument itself when it is a commit
\* identifier.
C9_CommitHashIsACommit ==
    (op = "GetCommitHash" /\ ret.err = nil)
        => (/\ ret.val \in DOMAIN Commits
            /\ (args[1] \in DOMAIN Refs => ret.val = Refs[args[1]])
            /\ (args[1] \notin DOMAIN Refs /\ args[1] \in DOMAIN Commits)
                  => ret.val = args[1])

\* C10: for a # b, IsAncestor(a, b) fails exactly when b does not resolve, and
\* then with the error about b; otherwise it answers, with no error, whether
\* a chain of parent edges through resolving commits leads from b to a,
\* whatever the order of the parents and whatever commits are missing on the
\* way (a is compared by identifier and need not be in the store itself).
C10_IsAncestorSuppressesDeepErrors ==
    (op = "IsAncestor" /\ args[1] # args[2])
        => IF Resolves(args[2])
           THEN ret.err = nil /\ ret.val = (args[1] \in Reachable(args[2]))
           ELSE ret.err = RefError(args[2]) /\ ret.val = FALSE

\* C10's case: b's first parent is missing from the store, and a is found
\* all the same, behind a later parent of b.
C10_Witness ==
    /\ op = "IsAncestor"
    /\ args[1] # args[2]
    /\ args[1] \in DOMAIN Commits
    /\ args[2] \in DOMAIN Commits
    /\ Len(Commits[args[2]].Parents) >= 2
    /\ Commits[args[2]].Parents[1] \notin DOMAIN Commits
    /\ ret.val = TRUE
    /\ ret.err = nil

====
